---- MODULE Spec2Model ----
(***************************************************************************)
(* Model of the email-pattern inference route (POST /api/process).         *)
(* Strings are TLA+ strings; a character is a string of length one.        *)
(* The JavaScript value null is the model value NULL below.                *)
(***************************************************************************)
EXTENDS Integers, Sequences, FiniteSets, TLC

VARIABLES
    request,           \* what kind of body the request carries
    isArray,           \* Array.isArray(entries) of the request body
    entries,           \* the request body's entries when they are an array
    pc,                \* position of the handler
    idx,               \* index of the entry of the for loop (1-based)
    domain,            \* deriveDomain(website) of the current entry
    urlsToTry,         \* discoverPattern's candidate list
    urlIdx,            \* index into urlsToTry of discoverPattern's loop
    html,              \* what the loop's last fetchHtml call returned
    patternDiscovery,  \* the value discoverPattern returned
    results,           \* the results array
    response,          \* the response sent, NULL before
    fetched,           \* history: every fetchHtml call made
    discovered,        \* history: every return of discoverPattern
    attempts           \* history: every contact the inner loop handled

vars == <<request, isArray, entries, pc, idx, domain, urlsToTry, urlIdx, html,
          patternDiscovery, results, response, fetched, discovered, attempts>>

NULL == "<null>"

\* A JSON value that is truthy and not a string (a number, an object, true)
NOT_A_STRING == "<number>"

(***************************************************************************)
(* String primitives of the JavaScript runtime used by the route.          *)
(***************************************************************************)
\* s.charAt(i - 1): the empty string outside the string
Ch(s, i) == IF i \in 1..Len(s) THEN SubSeq(s, i, i) ELSE ""

Lower == {"a","b","c","d","e","f","g","h","i","j","k","l","m",
          "n","o","p","q","r","s","t","u","v","w","x","y","z"}

Upper == {"A","B","C","D","E","F","G","H","I","J","K","L","M",
          "N","O","P","Q","R","S","T","U","V","W","X","Y","Z"}

Digit == {"0","1","2","3","4","5","6","7","8","9"}

Space == {" ", "\t", "\n"}

LowerOf == [c \in Upper |->
    CASE c = "A" -> "a" [] c = "B" -> "b" [] c = "C" -> "c" [] c = "D" -> "d"
      [] c = "E" -> "e" [] c = "F" -> "f" [] c = "G" -> "g" [] c = "H" -> "h"
      [] c = "I" -> "i" [] c = "J" -> "j" [] c = "K" -> "k" [] c = "L" -> "l"
      [] c = "M" -> "m" [] c = "N" -> "n" [] c = "O" -> "o" [] c = "P" -> "p"
      [] c = "Q" -> "q" [] c = "R" -> "r" [] c = "S" -> "s" [] c = "T" -> "t"
      [] c = "U" -> "u" [] c = "V" -> "v" [] c = "W" -> "w" [] c = "X" -> "x"
      [] c = "Y" -> "y" [] c = "Z" -> "z"]

UpperOf == [c \in Lower |-> CHOOSE u \in Upper : LowerOf[u] = c]

\* String.prototype.toLowerCase, one character
lowerChar(c) == IF c \in Upper THEN LowerOf[c] ELSE c

\* Apply a character-to-string map f to every character of s and concatenate.
RECURSIVE MapChars(_, _)
MapChars(f(_), s) ==
    IF s = "" THEN "" ELSE f(Head(s)) \o MapChars(f, Tail(s))

\* String.prototype.toLowerCase
toLowerCase(s) == MapChars(lowerChar, s)

\* String.prototype.startsWith / endsWith / includes
startsWith(s, p) == Len(s) >= Len(p) /\ SubSeq(s, 1, Len(p)) = p

endsWith(s, p) ==
    Len(s) >= Len(p) /\ SubSeq(s, Len(s) - Len(p) + 1, Len(s)) = p

includes(s, p) ==
    \E i \in 1..(Len(s) - Len(p) + 1) : SubSeq(s, i, i + Len(p) - 1) = p

\* String.prototype.slice(n) for n >= 0
slice(s, n) == IF n >= Len(s) THEN "" ELSE SubSeq(s, n + 1, Len(s))

\* String.prototype.trim
RECURSIVE trimStart(_)
trimStart(s) ==
    IF s # "" /\ Head(s) \in Space THEN trimStart(Tail(s)) ELSE s

RECURSIVE trimEnd(_)
trimEnd(s) ==
    IF s # "" /\ Ch(s, Len(s)) \in Space
    THEN trimEnd(SubSeq(s, 1, Len(s) - 1)) ELSE s

trim(s) == trimEnd(trimStart(s))

\* Length of the longest prefix of s whose characters all lie in the set cls
RECURSIVE RunLen(_, _)
RunLen(s, cls) ==
    IF s # "" /\ Head(s) \in cls THEN 1 + RunLen(Tail(s), cls) ELSE 0

\* s.replace(/[^cls]/g, with): every character outside cls becomes `with`
RECURSIVE ReplaceOutside(_, _, _)
ReplaceOutside(s, cls, with) ==
    IF s = "" THEN ""
    ELSE (IF Head(s) \in cls THEN Head(s) ELSE with)
             \o ReplaceOutside(Tail(s), cls, with)

\* s.split(on).filter(Boolean) where `on` is a set of separator characters:
\* the non-empty maximal runs of non-separator characters, in order.
RECURSIVE SplitRuns(_, _)
SplitRuns(s, on) ==
    IF s = "" THEN <<>>
    ELSE IF Head(s) \in on THEN SplitRuns(Tail(s), on)
    ELSE LET n == RunLen(s, { Ch(s, i) : i \in 1..Len(s) } \ on)
         IN  <<SubSeq(s, 1, n)>> \o SplitRuns(slice(s, n), on)

\* Array.prototype.pop() || dflt
PopOr(seq, dflt) == IF seq = <<>> THEN dflt ELSE seq[Len(seq)]

\* Index of the first character of s that lies in cls, or Len(s) + 1
FirstIn(s, cls) == RunLen(s, { Ch(s, i) : i \in 1..Len(s) } \ cls) + 1

\* Index of the last character of s that lies in cls, or 0
LastIn(s, cls) ==
    LET hits == { i \in 1..Len(s) : Ch(s, i) \in cls }
    IN  IF hits = {} THEN 0 ELSE CHOOSE i \in hits : \A j \in hits : j <= i

\* new Set(seq) then Array.from: first occurrences, in insertion order
RECURSIVE Distinct(_)
Distinct(seq) ==
    IF seq = <<>> THEN <<>>
    ELSE LET init == Distinct(SubSeq(seq, 1, Len(seq) - 1))
             last == seq[Len(seq)]
         IN  IF \E i \in 1..Len(init) : init[i] = last
             THEN init ELSE Append(init, last)

(***************************************************************************)
(* new URL(input) without a base, as far as the route depends on it:       *)
(* scheme detection, the authority of special and non-special schemes,     *)
(* userinfo and port removal, host lowercasing and the pathname.  Not      *)
(* modelled: file: URLs, IPv4/IPv6 hosts, percent-decoding of hosts,       *)
(* dot-segment removal, percent-encoding of quote and backquote in paths.   *)
(* ok = FALSE stands for the TypeError it throws.                          *)
(***************************************************************************)
SchemeChars == Lower \cup Upper \cup Digit \cup {"+", "-", "."}

SpecialSchemes == {"http", "https", "ftp", "ws", "wss"}

ForbiddenHostChars ==
    {" ", "#", "/", ":", "<", ">", "?", "@", "[", "\\", "]", "^", "|", "%"}

pathEncode(c) ==
    IF c = " " THEN "%20"
    ELSE IF c = "<" THEN "%3C"
    ELSE IF c = ">" THEN "%3E"
    ELSE IF c = "{" THEN "%7B"
    ELSE IF c = "}" THEN "%7D"
    ELSE c

BadURL == [ok |-> FALSE, protocol |-> "", hostname |-> "", pathname |-> ""]

\* Length of the scheme that starts the input, 0 if none
schemeLen(input) ==
    IF input # "" /\ Head(input) \in (Lower \cup Upper)
    THEN RunLen(input, SchemeChars) ELSE 0

\* The pathname: what precedes the query and fragment, percent-encoded
pathOf(special, tail) ==
    MapChars(LAMBDA c : IF special /\ c = "\\" THEN "/" ELSE pathEncode(c),
             SubSeq(tail, 1, FirstIn(tail, {"?", "#"}) - 1))

\* Host and port are validated; the record of a URL with an authority
urlOfHost(scheme, special, host, port, tail) ==
    IF \E i \in 1..Len(port) : Ch(port, i) \notin Digit THEN BadURL
    ELSE IF \E i \in 1..Len(host) : Ch(host, i) \in ForbiddenHostChars
        THEN BadURL
    ELSE IF special /\ host = "" THEN BadURL
    ELSE [ok       |-> TRUE,
          protocol |-> scheme \o ":",
          hostname |-> IF special THEN toLowerCase(host) ELSE host,
          pathname |-> IF special /\ pathOf(special, tail) = ""
                       THEN "/" ELSE pathOf(special, tail)]

\* host:port is split at the first colon
urlOfHostPort(scheme, special, hostport, tail) ==
    urlOfHost(scheme, special,
              SubSeq(hostport, 1, FirstIn(hostport, {":"}) - 1),
              slice(hostport, FirstIn(hostport, {":"})), tail)

\* The authority is what follows the last "@" of its text
urlOfAuthority(scheme, special, auth, tail) ==
    urlOfHostPort(scheme, special, slice(auth, LastIn(auth, {"@"})), tail)

\* The authority ends at the first path, query or fragment delimiter
urlAfterSlashes(scheme, special, s, delims) ==
    urlOfAuthority(scheme, special,
                   SubSeq(s, 1, FirstIn(s, delims) - 1),
                   slice(s, FirstIn(s, delims) - 1))

\* After "scheme:": special schemes skip any run of slashes, other schemes
\* have an authority only after "//" and an opaque path otherwise
urlOfRest(scheme, rest) ==
    IF scheme \in SpecialSchemes
    THEN urlAfterSlashes(scheme, TRUE, slice(rest, RunLen(rest, {"/", "\\"})),
                         {"/", "\\", "?", "#"})
    ELSE IF startsWith(rest, "//")
    THEN urlAfterSlashes(scheme, FALSE, slice(rest, 2), {"/", "?", "#"})
    ELSE [ok |-> TRUE, protocol |-> scheme \o ":", hostname |-> "",
          pathname |-> pathOf(FALSE, rest)]

urlOfInput(input, n) ==
    IF n = 0 \/ Ch(input, n + 1) # ":" THEN BadURL
    ELSE urlOfRest(toLowerCase(SubSeq(input, 1, n)), slice(input, n + 1))

\* Tabs and newlines are removed from the input before it is parsed
stripTabNl(c) == IF c \in {"\t", "\n"} THEN "" ELSE c

cleanInput(raw) == MapChars(stripTabNl, trim(raw))

ParseURL(raw) == urlOfInput(cleanInput(raw), schemeLen(cleanInput(raw)))

(***************************************************************************)
(* Domain resolver                                                         *)
(***************************************************************************)
FREE_PROVIDERS ==
    {"gmail.com", "yahoo.com", "outlook.com", "hotmail.com", "icloud.com",
     "aol.com", "protonmail.com", "zoho.com", "yandex.com", "gmx.com",
     "mail.com"}

\* lines 141-143
withScheme(value) ==
    IF ~startsWith(value, "http") THEN "https://" \o value ELSE value

\* lines 147-151
domainOfHost(host) == IF startsWith(host, "www.") THEN slice(host, 4) ELSE host

\* lines 145-154
domainOfUrl(url) ==
    IF ~url.ok THEN NULL ELSE domainOfHost(toLowerCase(url.hostname))

deriveDomain(input) ==
    IF input = "" THEN NULL
    ELSE IF trim(input) = "" THEN NULL
    ELSE domainOfUrl(ParseURL(withScheme(trim(input))))

\* skipsEntry without the free-provider test
skipsEntryNoProviders(d) == d = NULL \/ d = ""

\* !domain || FREE_PROVIDERS.has(domain.toLowerCase())
skipsEntry(d) == d = NULL \/ d = "" \/ toLowerCase(d) \in FREE_PROVIDERS

(***************************************************************************)
(* Pattern discovery: candidate URLs                                       *)
(***************************************************************************)
buildDiscoveryUrls(d) ==
    LET base       == "https://" \o d
        withoutWww == IF startsWith(d, "www.") THEN slice(d, 4) ELSE d
        withWww    == IF withoutWww = d THEN "www." \o d ELSE d
    IN  Distinct(<<"https://" \o withoutWww,
                   "https://" \o withWww,
                   "http://" \o withoutWww,
                   "http://" \o withWww,
                   base \o "/contact",
                   base \o "/team",
                   base \o "/about">>)

(***************************************************************************)
(* Pattern inferencer                                                      *)
(***************************************************************************)
Letters == Lower \cup Upper

\* EMAIL_REGEX = /[A-Z0-9._%+-]+@[A-Z0-9.-]+\.[A-Z]{2,}/gi
EmailLocalChars == Letters \cup Digit \cup {".", "_", "%", "+", "-"}

EmailHostChars == Letters \cup Digit \cup {".", "-"}

MinTldLen == 2

\* Length of the match of [A-Z0-9.-]+\.[A-Z]{2,} at the start of s, 0 if none:
\* the greedy host run backs off to the last dot followed by >= 2 letters.
tldDots(s, run) ==
    { h \in 1..(run - 1) : /\ Ch(s, h + 1) = "."
                            /\ RunLen(slice(s, h + 1), Letters) >= MinTldLen }

lastDotLen(s, dots) ==
    IF dots = {} THEN 0
    ELSE (CHOOSE d \in dots : \A e \in dots : e <= d) + 1
         + RunLen(slice(s, (CHOOSE d \in dots : \A e \in dots : e <= d) + 1),
                  Letters)

EmailHostMatchLen(s) == lastDotLen(s, tldDots(s, RunLen(s, EmailHostChars)))

\* html.match(EMAIL_REGEX) || []
RECURSIVE matchEmails(_)
matchFrom(text, l, h) ==
    IF l = 0 THEN matchEmails(Tail(text))
    ELSE IF h = 0 THEN matchEmails(slice(text, l))
    ELSE <<SubSeq(text, 1, l + 1 + h)>> \o matchEmails(slice(text, l + 1 + h))

matchLocal(text, l) ==
    matchFrom(text, l, IF Ch(text, l + 1) = "@"
                       THEN EmailHostMatchLen(slice(text, l + 1)) ELSE 0)

matchEmails(text) ==
    IF text = "" THEN <<>> ELSE matchLocal(text, RunLen(text, EmailLocalChars))

\* Array.prototype.filter
RECURSIVE Filter(_, _)
Filter(keep(_), seq) ==
    IF seq = <<>> THEN <<>>
    ELSE (IF keep(Head(seq)) THEN <<Head(seq)>> ELSE <<>>)
             \o Filter(keep, Tail(seq))

\* matches.map(toLowerCase).filter(endsWith(`@${domain}`))
lowerAll(matches) == [i \in 1..Len(matches) |-> toLowerCase(matches[i])]

businessEmails(text, d) ==
    Filter(LAMBDA e : endsWith(e, "@" \o d), lowerAll(matchEmails(text)))

\* /^[a-z]+$/
IsWord(s) == s # "" /\ \A i \in 1..Len(s) : Ch(s, i) \in Lower

\* /^[a-z]+\.{1}[a-z]+$/
ReFirstDotLast(s) ==
    \E i \in 1..Len(s) : /\ Ch(s, i) = "."
                         /\ IsWord(SubSeq(s, 1, i - 1))
                         /\ IsWord(slice(s, i))

\* /^[a-z]+[a-z]+$/
ReFirstLast(s) == IsWord(s) /\ Len(s) >= 2

\* /^[a-z]\.[a-z]+$/
ReInitialDotLast(s) == Ch(s, 1) \in Lower /\ Ch(s, 2) = "." /\ IsWord(slice(s, 2))

\* /^[a-z]+\.{1}[a-z]$/
ReFirstDotInitial(s) ==
    /\ Len(s) >= 3
    /\ IsWord(SubSeq(s, 1, Len(s) - 2))
    /\ Ch(s, Len(s) - 1) = "."
    /\ Ch(s, Len(s)) \in Lower

MinFirstLastLen == 4

\* inferPattern with the two initial rules tried before the first.last rule
inferPatternInitialsFirst(localPart) ==
    IF localPart = "" THEN NULL
    ELSE IF ReInitialDotLast(localPart) THEN "firstinitial.last"
    ELSE IF ReFirstDotInitial(localPart) THEN "first.lastinitial"
    ELSE IF ReFirstDotLast(localPart) THEN "first.last"
    ELSE IF /\ ReFirstLast(localPart)
            /\ Len(ReplaceOutside(localPart, Letters, "")) >= MinFirstLastLen
        THEN "firstlast"
    ELSE IF IsWord(localPart) THEN "first"
    ELSE NULL

inferPattern(localPart) ==
    IF localPart = "" THEN NULL
    ELSE IF ReFirstDotLast(localPart) THEN "first.last"
    ELSE IF /\ ReFirstLast(localPart)
            /\ Len(ReplaceOutside(localPart, Letters, "")) >= MinFirstLastLen
        THEN "firstlast"
    ELSE IF ReInitialDotLast(localPart) THEN "firstinitial.last"
    ELSE IF ReFirstDotInitial(localPart) THEN "first.lastinitial"
    ELSE IF IsWord(localPart) THEN "first"
    ELSE NULL

Patterns ==
    {"first.last", "firstlast", "firstinitial.last", "first.lastinitial",
     "first"}

\* PATTERN_PRIORITY[pattern] || 1
PATTERN_PRIORITY(p) ==
    CASE p = "first.last"        -> 5
      [] p = "firstlast"         -> 4
      [] p = "firstinitial.last" -> 3
      [] p = "first.lastinitial" -> 3
      [] p = "first"             -> 2
      [] OTHER                   -> 1

\* email.split("@")[0]
localOf(email) == SubSeq(email, 1, FirstIn(email, {"@"}) - 1)

\* patternScores.set(pattern, (patternScores.get(pattern) || 0) + weight)
\* on the Map as a sequence of <<pattern, score>> in insertion order
addScore(scores, pattern) ==
    IF pattern = NULL THEN scores
    ELSE IF \A i \in 1..Len(scores) : scores[i][1] # pattern
        THEN Append(scores, <<pattern, PATTERN_PRIORITY(pattern)>>)
    ELSE [i \in 1..Len(scores) |->
             IF scores[i][1] = pattern
             THEN <<pattern, scores[i][2] + PATTERN_PRIORITY(pattern)>>
             ELSE scores[i]]

\* The Map patternScores after the first loop
RECURSIVE patternScores(_)
patternScores(emails) ==
    IF emails = <<>> THEN <<>>
    ELSE addScore(patternScores(SubSeq(emails, 1, Len(emails) - 1)),
                  inferPattern(localOf(emails[Len(emails)])))

\* better with >= for >: a later pattern of equal score replaces the best
betterLastWins(best, cur) ==
    IF best[1] = NULL \/ cur[2] >= best[2] THEN cur ELSE best

\* The second loop: strict > against the running best
better(best, cur) == IF best[1] = NULL \/ cur[2] > best[2] THEN cur ELSE best

RECURSIVE bestOf(_)
bestOf(scores) ==
    IF scores = <<>> THEN <<NULL, -1>>
    ELSE better(bestOf(SubSeq(scores, 1, Len(scores) - 1)), scores[Len(scores)])

selectPattern(emails) == bestOf(patternScores(emails))[1]

(***************************************************************************)
(* Domain keyword heuristic                                                *)
(***************************************************************************)
hints ==
    << [pattern |-> "first.last",
        keywords |-> <<"io", "tech", "systems", "labs">>],
       [pattern |-> "firstinitial.last",
        keywords |-> <<"finance", "bank", "capital">>],
       [pattern |-> "firstlast",
        keywords |-> <<"media", "creative", "studio">>] >>

hintMatches(hint, d) ==
    \E k \in 1..Len(hint.keywords) : includes(d, hint.keywords[k])

guessPatternFromDomain(d) ==
    LET hit == { i \in 1..Len(hints) : hintMatches(hints[i], d) }
    IN  IF hit = {} THEN NULL
        ELSE hints[CHOOSE i \in hit : \A j \in hit : i <= j].pattern

\* lines 170-172
patternOfEmails(emails) ==
    IF emails = <<>> THEN NULL ELSE selectPattern(emails)

\* The text of a fetched page yields a pattern (lines 164-172)
pagePattern(text, d) ==
    IF text = NULL \/ text = "" THEN NULL
    ELSE patternOfEmails(businessEmails(text, d))

\* fallbackOf with the tiers of the two returns exchanged
fallbackOfTiersSwapped(heuristicPattern, d) ==
    IF heuristicPattern # NULL
    THEN [pattern |-> heuristicPattern, confidence |-> "low",
          source |-> "https://" \o d]
    ELSE [pattern |-> NULL, confidence |-> "medium",
          source |-> "https://" \o d]

\* The return statements of discoverPattern after the loop (lines 180-190)
fallbackOf(heuristicPattern, d) ==
    IF heuristicPattern # NULL
    THEN [pattern |-> heuristicPattern, confidence |-> "medium",
          source |-> "https://" \o d]
    ELSE [pattern |-> NULL, confidence |-> "low", source |-> "https://" \o d]

discoveryFallback(d) == fallbackOf(guessPatternFromDomain(d), d)

(***************************************************************************)
(* Identifier parser                                                       *)
(***************************************************************************)
ROLE_KEYWORDS ==
    << [match |-> {"founder", "cofounder", "co-founder"}, label |-> "Founder"],
       [match |-> {"ceo", "chiefexecutiveofficer"}, label |-> "CEO"],
       [match |-> {"c-suite", "executive"}, label |-> "Executive"],
       [match |-> {"cfo", "chieffinancialofficer", "financehead", "finance"},
        label |-> "Finance Head"],
       [match |-> {"operations", "ops", "headoperations", "operationshead"},
        label |-> "Operations Head"] >>

\* ROLE_PRIORITY[label] || 0
ROLE_PRIORITY(label) ==
    CASE label = "Founder"         -> 5
      [] label = "CEO"             -> 4
      [] label = "Executive"       -> 3
      [] label = "Operations Head" -> 2
      [] label = "Finance Head"    -> 2
      [] OTHER                     -> 0

FALLBACK_ROLE == "Decision Maker"

\* The slug of a profile reference (lines 310-317)
slugFrom(link, trimmed) ==
    IF link.ok
    THEN PopOr(SplitRuns(link.pathname, {"/"}), trimmed)
    ELSE PopOr(SplitRuns(trimmed, {"/"}), trimmed)

slugOf(trimmed) == slugFrom(ParseURL(trimmed), trimmed)

\* slug.toLowerCase().replace(/[^a-z0-9-_\s]/g, " ").split(/[-_\s]+/)
\*     .filter(Boolean)
SlugChars == Lower \cup Digit \cup {"-", "_"} \cup Space

tokensOf(slug) ==
    SplitRuns(ReplaceOutside(toLowerCase(slug), SlugChars, " "),
              {"-", "_"} \cup Space)

\* ROLE_KEYWORDS.find(item => item.match.includes(token.replace(/[^a-z]/g, "")))
\* as the label found, or NULL
roleOfToken(token) ==
    LET word == ReplaceOutside(token, Lower, "")
        hit  == { i \in 1..Len(ROLE_KEYWORDS) : word \in ROLE_KEYWORDS[i].match }
    IN  IF hit = {} THEN NULL
        ELSE ROLE_KEYWORDS[CHOOSE i \in hit : \A j \in hit : i <= j].label

\* /^\d+$/
IsNumeric(token) ==
    token # "" /\ \A i \in 1..Len(token) : Ch(token, i) \in Digit

\* matchedRoles, a Set: labels in order of first insertion
matchedRoles(tokens) ==
    Distinct(Filter(LAMBDA l : l # NULL,
                    [i \in 1..Len(tokens) |-> roleOfToken(tokens[i])]))

nameTokensOf(tokens) ==
    Filter(LAMBDA t : roleOfToken(t) = NULL /\ ~IsNumeric(t), tokens)

capitalize(input) ==
    IF input = "" THEN ""
    ELSE (IF Head(input) \in Lower THEN UpperOf[Head(input)] ELSE Head(input))
             \o Tail(input)

splitNameTokens(tokens) ==
    LET cleanedTokens ==
            Filter(LAMBDA t : t # "",
                   [i \in 1..Len(tokens) |-> ReplaceOutside(tokens[i], Lower, "")])
    IN  IF tokens = <<>> \/ cleanedTokens = <<>>
        THEN [firstName |-> NULL, lastName |-> NULL]
        ELSE [firstName |-> capitalize(cleanedTokens[1]),
              lastName  |-> IF Len(cleanedTokens) > 1
                            THEN capitalize(cleanedTokens[Len(cleanedTokens)])
                            ELSE NULL]

\* sortRoles placing a label before the earlier labels of equal priority
RECURSIVE sortRolesUnstable(_)
sortRolesUnstable(labels) ==
    IF labels = <<>> THEN <<>>
    ELSE LET init == sortRolesUnstable(SubSeq(labels, 1, Len(labels) - 1))
             x    == labels[Len(labels)]
             k    == Cardinality({ i \in 1..Len(init) :
                         ROLE_PRIORITY(init[i]) > ROLE_PRIORITY(x) })
         IN  SubSeq(init, 1, k) \o <<x>> \o SubSeq(init, k + 1, Len(init))

\* Array.prototype.sort with comparator ROLE_PRIORITY[b] - ROLE_PRIORITY[a]:
\* a stable sort by non-increasing priority
RECURSIVE sortRoles(_)
sortRoles(labels) ==
    IF labels = <<>> THEN <<>>
    ELSE LET init == sortRoles(SubSeq(labels, 1, Len(labels) - 1))
             x    == labels[Len(labels)]
             k    == Cardinality({ i \in 1..Len(init) :
                         ROLE_PRIORITY(init[i]) >= ROLE_PRIORITY(x) })
         IN  SubSeq(init, 1, k) \o <<x>> \o SubSeq(init, k + 1, Len(init))

\* Array.prototype.join
RECURSIVE join(_, _)
join(seq, sep) ==
    IF seq = <<>> THEN ""
    ELSE IF Len(seq) = 1 THEN seq[1]
    ELSE seq[1] \o sep \o join(Tail(seq), sep)

roleOf(tokens) ==
    IF matchedRoles(tokens) # <<>>
    THEN join(sortRoles(matchedRoles(tokens)), " & ")
    ELSE FALLBACK_ROLE

\* lines 343-366: the person, when a first name was found
contactOfName(name, role, trimmed, company) ==
    IF name.firstName = NULL THEN <<>>
    ELSE << [firstName |-> name.firstName,
             lastName  |-> name.lastName,
             fullName  |-> join(Filter(LAMBDA n : n # NULL,
                                       <<name.firstName, name.lastName>>), " "),
             role      |-> role,
             company   |-> company,
             source    |-> trimmed] >>

\* lines 325-366: the array of persons built from the tokens
contactsOfTokens(tokens, trimmed, company) ==
    IF nameTokensOf(tokens) = <<>> THEN <<>>
    ELSE contactOfName(splitNameTokens(nameTokensOf(tokens)), roleOf(tokens),
                       trimmed, company)

\* The array of persons built from a slug (lines 319-366): empty or a
\* single record
contactsOfSlug(slug, trimmed, company) ==
    contactsOfTokens(tokensOf(slug), trimmed, company)

extractContactFromLinkedIn(url, company) ==
    IF url = NULL \/ url = "" \/ trim(url) = "" THEN <<>>
    ELSE contactsOfSlug(slugOf(trim(url)), trim(url), company)

(***************************************************************************)
(* Email synthesizer                                                       *)
(***************************************************************************)
FALLBACK_PATTERNS ==
    <<"first.last", "first", "firstlast", "firstinitial.last",
      "first.lastinitial">>

chooseFallbackPattern(contact) ==
    IF contact.lastName = NULL \/ contact.lastName = "" THEN "first"
    ELSE FALLBACK_PATTERNS[1]

\* normalize("NFD") and the removal of combining marks leave ASCII text
\* unchanged; the model's names are ASCII.
sanitizePart(value) ==
    IF value = NULL \/ value = "" THEN ""
    ELSE toLowerCase(ReplaceOutside(value, Letters, ""))

\* applyPattern without the last-name guard of first.last
applyPatternUnguarded(pattern, first, last) ==
    CASE pattern = "first.last" -> first \o "." \o last
      [] pattern = "firstlast" ->
            IF last = "" THEN NULL ELSE first \o last
      [] pattern = "firstinitial.last" ->
            IF last = "" THEN NULL ELSE Ch(first, 1) \o "." \o last
      [] pattern = "first.lastinitial" ->
            IF last = "" THEN NULL ELSE first \o "." \o Ch(last, 1)
      [] pattern = "first" -> first
      [] OTHER -> NULL

applyPattern(pattern, first, last) ==
    CASE pattern = "first.last" ->
            IF last = "" THEN NULL ELSE first \o "." \o last
      [] pattern = "firstlast" ->
            IF last = "" THEN NULL ELSE first \o last
      [] pattern = "firstinitial.last" ->
            IF last = "" THEN NULL ELSE Ch(first, 1) \o "." \o last
      [] pattern = "first.lastinitial" ->
            IF last = "" THEN NULL ELSE first \o "." \o Ch(last, 1)
      [] pattern = "first" -> first
      [] OTHER -> NULL

\* lines 407-412
emailOf(first, localPart, d) ==
    IF first = "" THEN NULL
    ELSE IF localPart = NULL \/ localPart = "" THEN NULL
    ELSE localPart \o "@" \o d

buildEmail(contact, d, pattern) ==
    emailOf(sanitizePart(contact.firstName),
            applyPattern(pattern, sanitizePart(contact.firstName),
                         sanitizePart(contact.lastName)), d)

downgrade(level) ==
    IF level = "high" THEN "medium"
    ELSE IF level = "medium" THEN "low"
    ELSE "low"

\* adjustConfidence without the test for the pattern first
adjustConfidenceNameOnly(base, pattern, contact) ==
    LET level == IF base = NULL \/ base = "" THEN "low" ELSE base
    IN  IF contact.lastName = NULL \/ contact.lastName = ""
        THEN downgrade(level) ELSE level

adjustConfidence(base, pattern, contact) ==
    LET level == IF base = NULL \/ base = "" THEN "low" ELSE base
    IN  IF contact.lastName = NULL \/ contact.lastName = "" \/ pattern = "first"
        THEN downgrade(level) ELSE level

(***************************************************************************)
(* Dedup engine                                                            *)
(***************************************************************************)
\* signature without lowercasing the company
signatureCaseSensitive(item) == item.company \o "-" \o toLowerCase(item.email)

signature(item) ==
    toLowerCase(item.company) \o "-" \o toLowerCase(item.email)

\* results.filter with the seen Set: keep an item unless an earlier item
\* has the same signature
deduplicateResults(rs) ==
    LET kept == Filter(LAMBDA i : ~\E j \in 1..(i - 1) :
                                     signature(rs[j]) = signature(rs[i]),
                       [i \in 1..Len(rs) |-> i])
    IN  [k \in 1..Len(kept) |-> rs[kept[k]]]

(***************************************************************************)
(* The request handler                                                     *)
(***************************************************************************)
\* entry?.company || "" and entry?.website || "", trimmed
companyOf(entry) == trim(entry.company)

websiteOf(entry) == trim(entry.website)

\* linkedinProfiles.filter(Boolean)
profilesOf(entry) == Filter(LAMBDA p : p # NULL /\ p # "", entry.linkedinProfiles)

\* linkedinProfiles.flatMap(extractContactFromLinkedIn)
RECURSIVE contactsOf(_, _)
contactsOf(profiles, company) ==
    IF profiles = <<>> THEN <<>>
    ELSE extractContactFromLinkedIn(Head(profiles), company)
             \o contactsOf(Tail(profiles), company)

\* patternDiscovery.pattern || chooseFallbackPattern(contact)
emailPatternOf(disc, contact) ==
    IF disc.pattern # NULL THEN disc.pattern ELSE chooseFallbackPattern(contact)

\* [contact.source, patternDiscovery.source].filter(Boolean).join(" | ")
combinedSource(contact, disc) ==
    join(Filter(LAMBDA x : x # NULL /\ x # "",
                <<contact.source, disc.source>>), " | ")

UNKNOWN_COMPANY == "Unknown company"

\* The object pushed to results for a contact whose email was built
resultRow(contact, company, d, disc) ==
    [name       |-> contact.fullName,
     role       |-> contact.role,
     company    |-> IF company # "" THEN company
                    ELSE IF contact.company # "" THEN contact.company
                    ELSE UNKNOWN_COMPANY,
     email      |-> buildEmail(contact, d, emailPatternOf(disc, contact)),
     confidence |-> adjustConfidence(disc.confidence,
                                     emailPatternOf(disc, contact), contact),
     source     |-> combinedSource(contact, disc)]

\* The result rows of one entry (lines 80-110): one per contact, in contact
\* order, contacts without an email skipped
rowsOf(contacts, company, d, disc) ==
    LET emits(c) == buildEmail(c, d, emailPatternOf(disc, c)) # NULL
        emitted  == Filter(emits, contacts)
    IN  [k \in 1..Len(emitted) |-> resultRow(emitted[k], company, d, disc)]

\* History of the inner loop: what it did with each contact.  row is the
\* index in results of the row pushed, 0 when the contact was skipped.
attemptsOf(e, contacts, company, d, disc, base) ==
    LET emits(c) == buildEmail(c, d, emailPatternOf(disc, c)) # NULL
    IN  [k \in 1..Len(contacts) |->
            [entry        |-> e,
             contact      |-> contacts[k],
             discovery    |-> disc,
             domain       |-> d,
             emailPattern |-> emailPatternOf(disc, contacts[k]),
             email        |-> buildEmail(contacts[k], d,
                                         emailPatternOf(disc, contacts[k])),
             row          |-> IF emits(contacts[k])
                              THEN base + Len(Filter(emits,
                                                 SubSeq(contacts, 1, k)))
                              ELSE 0]]

(***************************************************************************)
(* Inputs: the request bodies and the pages the fetch collaborator serves  *)
(***************************************************************************)
Entry(company, website, profiles) ==
    [company |-> company, website |-> website, linkedinProfiles |-> profiles]

EntryPool ==
    << Entry("Acme", "acme.io",
             <<"https://www.linkedin.com/in/jordan-lee-founder-ceo/", "jordan">>),
       Entry("ACME ", "https://www.acme.io/x",
             <<"Jordan_LEE", "https://linkedin.com/in/jordan-lee?trk=ceo",
               "sam-ray-ops">>),
       Entry("Mail", "www.gmail.com", <<"michael-dane-cfo">>),
       Entry("", "http://acme.io",
             <<"https://www.linkedin.com/", "https://linkedin.com/in/1234">>),
       Entry("Bin", "httpbin.org", <<"michael-dane-cfo">>),
       Entry("Acme Tech", "acmetech.io",
             <<"https://www.linkedin.com/in/samantha-ray-operations/",
               "https://x.com/in/finance-ops-jo-li">>),
       Entry("Example", "example-corp.com",
             <<"jordan", "", "ops-ceo-ann-marie-lee-founder-finance">>),
       Entry("Studio", "acmestudio.com", <<"michael-dane-cfo">>),
       Entry("Blue Ridge Finance", "https://blueridgefinance.com",
             <<"michael-dane-cfo", "jordan", "sam-ray-ceo-ceo">>),
       Entry("Big Media", " WWW.BigMedia.net ",
             <<"executive-sam-ray-operations-finance">>),
       Entry("Nowhere", "not a url", <<"jordan-lee">>),
       Entry("Hot", "Hotmail.com", <<"jordan-lee">>),
       Entry("Acme", "WWW.Acme.IO", <<"jordan-lee-ops">>),
       Entry(NOT_A_STRING, "acme.io", <<"sam-ray">>),
       Entry("Acme", NOT_A_STRING, <<"sam-ray">>) >>

\* Longest batch of entries in a request
MaxEntries == 2

\* The batches: runs of at most MaxEntries consecutive pool entries, the
\* empty batch included
EntryLists ==
    { SubSeq(EntryPool, a, b) :
        a \in 1..Len(EntryPool),
        b \in 0..Len(EntryPool) } \cap
    UNION { [1..n -> { EntryPool[i] : i \in 1..Len(EntryPool) }] :
            n \in 0..MaxEntries }

\* What fetchHtml can return: NULL on any failure, else the body text
Pages ==
    { "",
      "Contact: jordan.lee@acme.io, Sam.Ray@ACME.io.",
      "mailto:info@acme.io",
      "bob@acme.io jo@example-corp.com",
      "team-1@acme.io help@gmail.com x@sub.acme.io",
      "bob@acme.io jo@acme.io anna@acme.io",
      "anna@acme.io bob@acme.io jo@acme.io",
      "bob@acme.io, jordan.lee@acme.io",
      "jordan.lee@acme.io anna@acme.io annab@acme.io",
      "j.lee@acme.io jordan.l@acme.io bob@acme.io",
      "J.Lee@bigmedia.net, jordan.l@bigmedia.net" }

FetchOutcomes == {NULL} \cup Pages

(***************************************************************************)
(* The request handler POST as a state machine                             *)
(***************************************************************************)
NoDiscovery == [pattern |-> NULL, confidence |-> NULL, source |-> NULL]

\* No response sent yet
NoResponse == [status |-> 0, results |-> <<>>, error |-> NULL]

\* What await request.json() does with the body: it rejects when the body
\* is not JSON, else it resolves to the JSON value
RequestBodies == {"not JSON", "null", "value"}

\* error?.message || "Unexpected server error."
messageOf(message) ==
    IF message = NULL \/ message = "" THEN "Unexpected server error."
    ELSE message

\* The messages of the errors request.json() can reject with
ParseErrors == {"Unexpected end of JSON input", ""}

\* TypeError of destructuring null
DESTRUCTURE_ERROR == "Cannot destructure property 'entries' of null"

\* TypeError of calling trim on a value that is not a string
TRIM_ERROR == "trim is not a function"

\* (entry?.company || "").trim() or (entry?.website || "").trim() throws
trimThrows(entry) ==
    entry.company = NOT_A_STRING \/ entry.website = NOT_A_STRING

\* The catch block (lines 116-121)
errorResponse(message) ==
    [status |-> 500, results |-> <<>>, error |-> messageOf(message)]

Init ==
    /\ request \in RequestBodies
    /\ isArray \in IF request = "value" THEN BOOLEAN ELSE {FALSE}
    /\ entries \in IF isArray THEN EntryLists ELSE {<<>>}
    /\ pc = "start"
    /\ idx = 1
    /\ domain = NULL
    /\ urlsToTry = <<>>
    /\ urlIdx = 1
    /\ html = NULL
    /\ patternDiscovery = NoDiscovery
    /\ results = <<>>
    /\ response = NoResponse
    /\ fetched = <<>>
    /\ discovered = <<>>
    /\ attempts = <<>>

\* lines 54-59: entries is not an array, or is empty
Reject ==
    /\ pc = "start"
    /\ request = "value"
    /\ ~isArray \/ Len(entries) = 0
    /\ response' = [status |-> 400, results |-> <<>>,
                    error |-> "No entries supplied."]
    /\ pc' = "done"
    /\ UNCHANGED <<request, isArray,
                   entries, idx, domain, urlsToTry, urlIdx, html,
                   patternDiscovery, results, fetched, discovered, attempts>>

\* lines 52, 116-121: request.json() rejects or the destructuring of its
\* value throws, and the catch block responds
FailBody ==
    /\ pc = "start"
    /\ request # "value"
    /\ \E message \in IF request = "null" THEN {DESTRUCTURE_ERROR}
                                          ELSE ParseErrors :
          response' = errorResponse(message)
    /\ pc' = "done"
    /\ UNCHANGED <<request, isArray,
                   entries, idx, domain, urlsToTry, urlIdx, html,
                   patternDiscovery, results, fetched, discovered, attempts>>

\* line 61: the loop over entries begins
Accept ==
    /\ pc = "start"
    /\ request = "value"
    /\ isArray /\ Len(entries) # 0
    /\ pc' = "entry"
    /\ UNCHANGED <<request, isArray,
                   entries, idx, domain, urlsToTry, urlIdx, html,
                   patternDiscovery, results, response, fetched, discovered,
                   attempts>>

\* lines 64-73: the entry's domain is unresolvable or a free provider
SkipEntry ==
    /\ pc = "entry"
    /\ idx <= Len(entries)
    /\ ~trimThrows(entries[idx])
    /\ LET d == deriveDomain(websiteOf(entries[idx]))
       IN  /\ skipsEntry(d)
           /\ domain' = d
    /\ idx' = idx + 1
    /\ UNCHANGED <<request, isArray,
                   entries, pc, urlsToTry, urlIdx, html,
                   patternDiscovery, results, response, fetched, discovered,
                   attempts>>

\* FailEntry answering with the rows collected so far
FailEntryPartial ==
    /\ pc = "entry"
    /\ idx <= Len(entries)
    /\ trimThrows(entries[idx])
    /\ response' = [status |-> 500, results |-> deduplicateResults(results),
                    error |-> messageOf(TRIM_ERROR)]
    /\ pc' = "done"
    /\ UNCHANGED <<request, isArray,
                   entries, idx, domain, urlsToTry, urlIdx, html,
                   patternDiscovery, results, fetched, discovered, attempts>>

\* lines 64-65, 116-121: trim is called on a company or website that is not
\* a string, the TypeError leaves the loop and the catch block responds
FailEntry ==
    /\ pc = "entry"
    /\ idx <= Len(entries)
    /\ trimThrows(entries[idx])
    /\ response' = errorResponse(TRIM_ERROR)
    /\ pc' = "done"
    /\ UNCHANGED <<request, isArray,
                   entries, idx, domain, urlsToTry, urlIdx, html,
                   patternDiscovery, results, fetched, discovered, attempts>>

\* lines 70-75, 158-160: discoverPattern(domain) is called
BeginDiscovery ==
    /\ pc = "entry"
    /\ idx <= Len(entries)
    /\ ~trimThrows(entries[idx])
    /\ LET d == deriveDomain(websiteOf(entries[idx]))
       IN  /\ ~skipsEntry(d)
           /\ domain' = d
           /\ urlsToTry' = buildDiscoveryUrls(d)
    /\ urlIdx' = 1
    /\ html' = NULL
    /\ pc' = "fetch"
    /\ UNCHANGED <<request, isArray,
                   entries, idx, patternDiscovery, results, response,
                   fetched, discovered, attempts>>

\* lines 162-177: one iteration of the loop whose page yields no pattern
FetchMiss ==
    /\ pc = "fetch"
    /\ urlIdx <= Len(urlsToTry)
    /\ \E text \in FetchOutcomes :
          /\ pagePattern(text, domain) = NULL
          /\ html' = text
    /\ fetched' = Append(fetched,
           [entry |-> idx, domain |-> domain, url |-> urlsToTry[urlIdx],
            pattern |-> NULL])
    /\ urlIdx' = urlIdx + 1
    /\ UNCHANGED <<request, isArray,
                   entries, pc, idx, domain, urlsToTry,
                   patternDiscovery, results, response, discovered, attempts>>

\* FetchHit without the break: the pattern is kept and the loop goes on
FetchHitNoBreak ==
    /\ pc = "fetch"
    /\ urlIdx <= Len(urlsToTry)
    /\ \E text \in FetchOutcomes :
          /\ pagePattern(text, domain) # NULL
          /\ fetched' = Append(fetched,
                 [entry |-> idx, domain |-> domain, url |-> urlsToTry[urlIdx],
                  pattern |-> pagePattern(text, domain)])
          /\ patternDiscovery' = [pattern    |-> pagePattern(text, domain),
                                  confidence |-> "high",
                                  source     |-> urlsToTry[urlIdx]]
    /\ html' = NULL
    /\ urlIdx' = urlIdx + 1
    /\ UNCHANGED <<request, isArray,
                   entries, pc, idx, domain, urlsToTry, results,
                   response, discovered, attempts>>

\* lines 162-181: the iteration whose page yields a pattern, and the return
FetchHit ==
    /\ pc = "fetch"
    /\ urlIdx <= Len(urlsToTry)
    /\ \E text \in FetchOutcomes :
          LET pattern == pagePattern(text, domain)
              found   == [pattern    |-> pattern,
                          confidence |-> "high",
                          source     |-> urlsToTry[urlIdx]]
          IN  /\ pattern # NULL
              /\ fetched' = Append(fetched,
                     [entry |-> idx, domain |-> domain,
                      url |-> urlsToTry[urlIdx], pattern |-> pattern])
              /\ patternDiscovery' = found
              /\ discovered' = Append(discovered,
                     [entry |-> idx, domain |-> domain, result |-> found])
              /\ html' = text
    /\ pc' = "contacts"
    /\ UNCHANGED <<request, isArray,
                   entries, idx, domain, urlsToTry, urlIdx, results,
                   response, attempts>>

\* lines 180-190: the candidates are exhausted
FetchExhausted ==
    /\ pc = "fetch"
    /\ urlIdx > Len(urlsToTry)
    /\ LET fallback == discoveryFallback(domain)
       IN  /\ patternDiscovery' = fallback
           /\ discovered' = Append(discovered,
                  [entry |-> idx, domain |-> domain, result |-> fallback])
    /\ html' = NULL
    /\ pc' = "contacts"
    /\ UNCHANGED <<request, isArray,
                   entries, idx, domain, urlsToTry, urlIdx, results,
                   response, fetched, attempts>>

\* lines 76-110: the entry's contacts are turned into result rows
EmitContacts ==
    /\ pc = "contacts"
    /\ LET company  == companyOf(entries[idx])
           contacts == contactsOf(profilesOf(entries[idx]), company)
       IN  /\ results' = results \o
                  rowsOf(contacts, company, domain, patternDiscovery)
           /\ attempts' = attempts \o
                  attemptsOf(idx, contacts, company, domain, patternDiscovery,
                             Len(results))
    /\ idx' = idx + 1
    /\ pc' = "entry"
    /\ UNCHANGED <<request, isArray,
                   entries, domain, urlsToTry, urlIdx, html,
                   patternDiscovery, response, fetched, discovered>>

\* lines 113-115: deduplicate and respond
Respond ==
    /\ pc = "entry"
    /\ idx > Len(entries)
    /\ response' = [status |-> 200, results |-> deduplicateResults(results),
                    error |-> NULL]
    /\ pc' = "done"
    /\ UNCHANGED <<request, isArray,
                   entries, idx, domain, urlsToTry, urlIdx, html,
                   patternDiscovery, results, fetched, discovered, attempts>>

Next ==
    \/ FailBody
    \/ Reject
    \/ Accept
    \/ FailEntry
    \/ SkipEntry
    \/ BeginDiscovery
    \/ FetchMiss
    \/ FetchHit
    \/ FetchExhausted
    \/ EmitContacts
    \/ Respond

Spec == Init /\ [][Next]_vars

(***************************************************************************)
(* Properties                                                              *)
(***************************************************************************)
\* The fetchHtml calls made for entry e, in call order
FetchesOf(e) == Filter(LAMBDA f : f.entry = e, fetched)

\* The returns of discoverPattern for entry e
DiscoveriesOf(e) == Filter(LAMBDA d : d.entry = e, discovered)

\* Entry e's fetches are a prefix of the candidate list, only the last one
\* may have yielded a pattern, and a yielded pattern is what was returned
FetchOrderOf(e, fs, ds) ==
    /\ \A k \in 1..Len(fs) :
          /\ k <= Len(buildDiscoveryUrls(fs[k].domain))
          /\ fs[k].url = buildDiscoveryUrls(fs[k].domain)[k]
          /\ \A j \in 1..Len(fs) : fs[j].url = fs[k].url => j = k
          /\ k < Len(fs) => fs[k].pattern = NULL
    /\ Len(ds) <= 1
    /\ \A i \in 1..Len(ds) :
          IF fs # <<>> /\ fs[Len(fs)].pattern # NULL
          THEN ds[i].result = [pattern    |-> fs[Len(fs)].pattern,
                               confidence |-> "high",
                               source     |-> fs[Len(fs)].url]
          ELSE /\ ds[i].result.confidence # "high"
               /\ Len(fs) = Len(buildDiscoveryUrls(ds[i].domain))
    /\ (fs # <<>> /\ fs[Len(fs)].pattern # NULL) => ds # <<>>
    /\ (pc = "fetch" /\ e = idx) => (ds = <<>> /\ Len(fs) = urlIdx - 1)

\* C1: for every resolved domain the candidate URLs of buildDiscoveryUrls are
\* fetched in list order, each at most once; a failed fetch or a page without
\* a pattern only advances to the next candidate; the first candidate whose
\* page yields a pattern ends the loop with {pattern, high, that URL} and no
\* later candidate is fetched.
C1_FetchInOrderStopAtFirstPattern ==
    \A e \in 1..Len(entries) :
        FetchOrderOf(e, FetchesOf(e), DiscoveriesOf(e))

\* C1 witness: a discovery that returned high from the third candidate,
\* after two candidates whose fetch only advanced the loop
C1_Witness ==
    \E i \in 1..Len(discovered) :
        /\ discovered[i].result.confidence = "high"
        /\ Len(FetchesOf(discovered[i].entry)) >= 3
        /\ discovered[i].result.source =
               "http://" \o discovered[i].domain

\* The keywords of the domain heuristic
HeuristicKeywords ==
    {"io", "tech", "systems", "labs", "finance", "bank", "capital",
     "media", "creative", "studio"}

HintedPatterns == {"first.last", "firstinitial.last", "firstlast"}

\* discoverPattern returned for an entry none of whose fetches gave a pattern
NoPageYielded(d) == \A k \in 1..Len(fetched) :
                        fetched[k].entry = d.entry => fetched[k].pattern = NULL

\* C2: when no candidate URL yields a pattern, discoverPattern returns
\* confidence medium with a hinted pattern and source https://<domain> if the
\* domain contains a heuristic keyword, and {null, low, https://<domain>}
\* otherwise, never high; acmetech.io gives first.last/medium and
\* example-corp.com gives null/low.
C2_FallbackWhenNoPageYields ==
    \A i \in 1..Len(discovered) :
        NoPageYielded(discovered[i]) =>
            /\ discovered[i].result.confidence # "high"
            /\ discovered[i].result.source = "https://" \o discovered[i].domain
            /\ IF \E kw \in HeuristicKeywords : includes(discovered[i].domain, kw)
               THEN /\ discovered[i].result.confidence = "medium"
                    /\ discovered[i].result.pattern \in HintedPatterns
               ELSE /\ discovered[i].result.confidence = "low"
                    /\ discovered[i].result.pattern = NULL
            /\ discovered[i].domain = "acmetech.io" =>
                   /\ discovered[i].result.pattern = "first.last"
                   /\ discovered[i].result.confidence = "medium"
            /\ discovered[i].domain = "example-corp.com" =>
                   /\ discovered[i].result.pattern = NULL
                   /\ discovered[i].result.confidence = "low"

\* C2 witness: one request in which acmetech.io fell back to the keyword
\* hint and example-corp.com to no pattern, all seven fetches having missed
C2_Witness ==
    /\ \E i \in 1..Len(discovered) :
          /\ discovered[i].domain = "acmetech.io"
          /\ NoPageYielded(discovered[i])
          /\ Len(FetchesOf(discovered[i].entry)) = 7
          /\ discovered[i].result.confidence = "medium"
    /\ \E i \in 1..Len(discovered) :
          /\ discovered[i].domain = "example-corp.com"
          /\ NoPageYielded(discovered[i])
          /\ discovered[i].result.confidence = "low"

\* A website string that is a bare host: host characters only, no scheme
HostChars == Letters \cup Digit \cup {".", "-"}

IsBareHost(w) == w # "" /\ \A i \in 1..Len(w) : Ch(w, i) \in HostChars

\* The entry whose website the variable domain was derived from, 0 if none
ResolvedEntry == IF pc \in {"fetch", "contacts"} THEN idx
                 ELSE IF pc \in {"entry", "done"} THEN idx - 1 ELSE 0

\* The lowercased host with one leading www. label removed
ExpectedDomain(w) ==
    IF startsWith(toLowerCase(w), "www.") THEN slice(toLowerCase(w), 4)
    ELSE toLowerCase(w)

\* C3: for every website given as a bare host without a scheme, deriveDomain
\* returns the lowercased hostname with one leading www. label removed, and
\* the https://www.<host>/x and http://<host> forms of the host give the
\* same value.
C3_BareHostResolves ==
    \A e \in 1..Len(entries) :
        (e = ResolvedEntry /\ IsBareHost(websiteOf(entries[e]))) =>
            /\ domain = ExpectedDomain(websiteOf(entries[e]))
            /\ ~startsWith(toLowerCase(websiteOf(entries[e])), "www.") =>
                  /\ deriveDomain("http://" \o websiteOf(entries[e])) = domain
                  /\ deriveDomain("https://www." \o websiteOf(entries[e]) \o "/x")
                         = domain

\* Entry e's website resolves to a free-provider hostname
IsFreeProviderEntry(e) ==
    deriveDomain(websiteOf(entries[e])) \in FREE_PROVIDERS

\* The loop over entries has finished its iteration for entry e
Handled(e) == e < idx

\* C4: an entry whose website resolves to a hostname of the free-provider
\* set contributes zero results whatever its profile references are, and the
\* remaining entries of the batch are still processed.
C4_FreeProviderEntriesContributeNothing ==
    /\ \A e \in 1..Len(entries) :
          IsFreeProviderEntry(e) =>
              /\ \A k \in 1..Len(attempts) : attempts[k].entry # e
              /\ \A k \in 1..Len(fetched) : fetched[k].entry # e
              /\ \A k \in 1..Len(discovered) : discovered[k].entry # e
    /\ Len(results) = Cardinality({ k \in 1..Len(attempts) : attempts[k].row # 0 })
    /\ \A e \in 1..Len(entries) :
          (Handled(e) /\ isArray /\ ~IsFreeProviderEntry(e)
                      /\ deriveDomain(websiteOf(entries[e])) \notin {NULL, ""}) =>
              \E k \in 1..Len(discovered) : discovered[k].entry = e

\* C4 witness: a finished request whose first entry is a free-provider entry
\* with a profile reference and whose second entry produced a result
C4_Witness ==
    /\ pc = "done"
    /\ Len(entries) = 2
    /\ IsFreeProviderEntry(1)
    /\ profilesOf(entries[1]) # <<>>
    /\ \E k \in 1..Len(attempts) : attempts[k].entry = 2 /\ attempts[k].row # 0
    /\ Len(response.results) >= 1

\* The (company, email) pair of a result, compared case-insensitively
PairOf(r) == <<toLowerCase(r.company), toLowerCase(r.email)>>

\* The indices of results whose pair did not occur earlier
FirstOccurrences(rs) ==
    { i \in 1..Len(rs) : \A j \in 1..(i - 1) : PairOf(rs[j]) # PairOf(rs[i]) }

\* out is rs restricted to the index set keep, in the order of rs
IsRestriction(out, rs, keep) ==
    /\ Len(out) = Cardinality(keep)
    /\ \A i \in keep : out[Cardinality({ j \in keep : j <= i })] = rs[i]

\* C5: in the final response no two results have the same (company, email)
\* pair compared case-insensitively; exactly the first occurrence of each
\* pair is kept, in the original relative order; deduplication runs once,
\* after all entries have been processed.
C5_DedupKeepsFirstOccurrences ==
    /\ pc # "done" => response = NoResponse
    /\ (pc = "done" /\ response.status = 200) =>
          /\ idx = Len(entries) + 1
          /\ \A i \in 1..Len(response.results) :
                \A j \in 1..Len(response.results) :
                    PairOf(response.results[i]) = PairOf(response.results[j])
                        => i = j
          /\ IsRestriction(response.results, results, FirstOccurrences(results))

\* C5 witness: a response from which duplicates were dropped, among them one
\* whose company differs from the kept one only by case, with two rows kept
C5_Witness ==
    /\ pc = "done"
    /\ Len(response.results) >= 2
    /\ Len(response.results) < Len(results)
    /\ \E i \in 1..Len(results) : \E j \in 1..Len(results) :
          /\ i < j
          /\ results[i].company # results[j].company
          /\ PairOf(results[i]) = PairOf(results[j])

\* One tier down: high to medium, medium to low, low stays low
OneTierDown(tier) ==
    CASE tier = "high" -> "medium" [] tier = "medium" -> "low" [] OTHER -> "low"

\* The discovery of attempt a was scored from a page fetched for its entry
ScoredFromPage(a) ==
    \E k \in 1..Len(fetched) : /\ fetched[k].entry = a.entry
                               /\ fetched[k].url = a.discovery.source
                               /\ fetched[k].pattern = a.emailPattern

\* C6: the confidence of every emitted result is the discovery tier, one tier
\* down when the contact has no last name or the applied pattern is first;
\* so a result is high only if its pattern was scored from a fetched page,
\* is not first, and the contact has a last name.
C6_ConfidenceIsDiscoveryTierDowngraded ==
    \A k \in 1..Len(attempts) :
        attempts[k].row # 0 =>
            /\ results[attempts[k].row].confidence =
                   IF \/ attempts[k].contact.lastName = NULL
                      \/ attempts[k].emailPattern = "first"
                   THEN OneTierDown(attempts[k].discovery.confidence)
                   ELSE attempts[k].discovery.confidence
            /\ results[attempts[k].row].confidence = "high" =>
                   /\ ScoredFromPage(attempts[k])
                   /\ attempts[k].emailPattern # "first"
                   /\ attempts[k].contact.lastName # NULL

\* C6 witness: one request with a result that kept high and a result with a
\* last name that went from high to medium because its pattern is first
C6_Witness ==
    /\ \E k \in 1..Len(attempts) :
          /\ attempts[k].row # 0
          /\ results[attempts[k].row].confidence = "high"
    /\ \E k \in 1..Len(attempts) :
          /\ attempts[k].row # 0
          /\ attempts[k].contact.lastName # NULL
          /\ attempts[k].discovery.confidence = "high"
          /\ results[attempts[k].row].confidence = "medium"

TwoPartPatterns ==
    {"first.last", "firstlast", "firstinitial.last", "first.lastinitial"}

\* A name in lowercase, letters only; the empty string for an absent name
PlainName(name) ==
    IF name = NULL THEN "" ELSE toLowerCase(ReplaceOutside(name, Letters, ""))

\* The local part the named template gives for plain names f and l
TemplateOf(pattern, f, l) ==
    CASE pattern = "first.last"        -> f \o "." \o l
      [] pattern = "firstlast"         -> f \o l
      [] pattern = "firstinitial.last" -> Ch(f, 1) \o "." \o l
      [] pattern = "first.lastinitial" -> f \o "." \o Ch(l, 1)
      [] pattern = "first"             -> f

EmailAsClaimed(a, f, l) ==
    /\ a.email = NULL <=> (f = "" \/ (a.emailPattern \in TwoPartPatterns /\ l = ""))
    /\ a.email # NULL => a.email = TemplateOf(a.emailPattern, f, l) \o "@" \o a.domain
    /\ a.row = 0 <=> a.email = NULL
    /\ a.row # 0 => results[a.row].email = a.email
    /\ (f = "jordan" /\ l = "lee" /\ a.domain = "acme.io") =>
           /\ a.emailPattern = "first.last" => a.email = "jordan.lee@acme.io"
           /\ a.emailPattern = "firstlast" => a.email = "jordanlee@acme.io"
           /\ a.emailPattern = "first" => a.email = "jordan@acme.io"
    /\ (f = "michael" /\ l = "dane" /\ a.emailPattern = "firstinitial.last") =>
           a.email = "m.dane@" \o a.domain

\* C7: buildEmail returns <local>@<domain>, the local part being the named
\* template applied to the sanitized lowercase names; it returns no email
\* exactly when the sanitized first name is empty or the pattern is one of
\* the four two-part patterns and the last name is empty or absent, and then
\* the contact produces no result row.
C7_BuildEmailTemplateOrNothing ==
    \A k \in 1..Len(attempts) :
        EmailAsClaimed(attempts[k], PlainName(attempts[k].contact.firstName),
                       PlainName(attempts[k].contact.lastName))

\* C7 witness: a contact without last name dropped under a two-part pattern
\* next to a contact that got firstinitial.last applied
C7_Witness ==
    /\ \E k \in 1..Len(attempts) :
          /\ attempts[k].contact.lastName = NULL
          /\ attempts[k].emailPattern \in TwoPartPatterns
          /\ attempts[k].row = 0
    /\ \E k \in 1..Len(attempts) :
          /\ attempts[k].emailPattern = "firstinitial.last"
          /\ attempts[k].email = "m.dane@blueridgefinance.com"
          /\ attempts[k].row # 0

\* The tokens of the slug of the profile reference a contact came from
TokensOfContact(c) == tokensOf(slugOf(c.source))

\* index of the first token of toks that matches a keyword of label, 0 if none
FirstMatch(toks, label) ==
    LET hits == { i \in 1..Len(toks) : roleOfToken(toks[i]) = label }
    IN  IF hits = {} THEN 0 ELSE CHOOSE i \in hits : \A j \in hits : i <= j

RoleLabels == {"Founder", "CEO", "Executive", "Operations Head", "Finance Head"}

RoleRank ==
    [l \in RoleLabels |->
        CASE l = "Founder" -> 5 [] l = "CEO" -> 4 [] l = "Executive" -> 3
          [] l = "Operations Head" -> 2 [] l = "Finance Head" -> 2]

AllRoleKeywords == UNION { ROLE_KEYWORDS[i].match : i \in 1..Len(ROLE_KEYWORDS) }

\* order is an arrangement of the label set matched, by non-increasing rank,
\* equal ranks by first occurrence in toks
IsRoleOrder(order, matched, toks) ==
    /\ { order[i] : i \in 1..Len(order) } = matched
    /\ \A i \in 1..Len(order) : \A j \in 1..Len(order) :
          i < j => \/ RoleRank[order[i]] > RoleRank[order[j]]
                   \/ /\ RoleRank[order[i]] = RoleRank[order[j]]
                      /\ FirstMatch(toks, order[i]) < FirstMatch(toks, order[j])

RoleAsClaimed(c, toks, matched) ==
    /\ c.role = FALLBACK_ROLE <=> matched = {}
    /\ matched # {} =>
          \E order \in [1..Cardinality(matched) -> matched] :
              /\ IsRoleOrder(order, matched, toks)
              /\ c.role = join(order, " & ")
    /\ toLowerCase(c.firstName) \notin AllRoleKeywords
    /\ c.lastName # NULL => toLowerCase(c.lastName) \notin AllRoleKeywords
    /\ c.source = "https://www.linkedin.com/in/jordan-lee-founder-ceo/" =>
          /\ c.firstName = "Jordan"
          /\ c.lastName = "Lee"
          /\ c.role = "Founder & CEO"

\* C8: the role of a person is the distinct labels of the role keywords its
\* slug tokens match, by non-increasing priority, equal priorities in order
\* of first occurrence, joined by " & "; it is "Decision Maker" exactly when
\* no token matches; matching tokens never become part of the name.
C8_RoleIsMatchedLabelsByPriority ==
    \A k \in 1..Len(attempts) :
        RoleAsClaimed(attempts[k].contact, TokensOfContact(attempts[k].contact),
                      { l \in RoleLabels :
                          FirstMatch(TokensOfContact(attempts[k].contact), l) # 0 })

\* C8 witness: a person whose two labels of equal priority keep slug order,
\* a person with four labels, and a person without any
C8_Witness ==
    /\ \E k \in 1..Len(attempts) :
          attempts[k].contact.role = "Finance Head & Operations Head"
    /\ \E k \in 1..Len(attempts) :
          attempts[k].contact.role = FALLBACK_ROLE
    /\ \E k \in 1..Len(attempts) :
          attempts[k].contact.role =
              "Founder & CEO & Operations Head & Finance Head"

\* The last non-empty path segment of a URL, the empty string if none
LastPathSegment(url) == PopOr(SplitRuns(url.pathname, {"/"}), "")

\* C9: for every profile reference that parses as a URL, the name and role
\* come only from the tokens of the URL's last non-empty path segment; the
\* scheme, host and query contribute none, also when the URL has no
\* non-empty path segment.
C9_UrlNameAndRoleFromLastSegmentOnly ==
    \A k \in 1..Len(attempts) :
        ParseURL(attempts[k].contact.source).ok =>
            <<attempts[k].contact>> =
                contactsOfSlug(LastPathSegment(ParseURL(attempts[k].contact.source)),
                               attempts[k].contact.source,
                               attempts[k].contact.company)

\* The keyword groups of the domain heuristic and their patterns
KeywordGroups ==
    { [pattern |-> "first.last", keywords |-> {"io", "tech", "systems", "labs"}],
      [pattern |-> "firstinitial.last", keywords |-> {"finance", "bank", "capital"}],
      [pattern |-> "firstlast", keywords |-> {"media", "creative", "studio"}] }

\* C10: for each keyword group, every domain that contains a keyword of the
\* group and for which no candidate page yields a pattern gets the group's
\* pattern with confidence medium.
C10_EveryKeywordGivesItsGroupPattern ==
    \A i \in 1..Len(discovered) : \A g \in KeywordGroups :
        (/\ NoPageYielded(discovered[i])
         /\ \E kw \in g.keywords : includes(discovered[i].domain, kw)) =>
            /\ discovered[i].result.pattern = g.pattern
            /\ discovered[i].result.confidence = "medium"

\* The patterns the addresses of a list are classified to, address by address
ClassOf(emails) ==
    [i \in 1..Len(emails) |-> inferPattern(localOf(emails[i]))]

\* The patterns present in a list of classes
PresentIn(classes) == { classes[i] : i \in 1..Len(classes) } \ {NULL}

\* The total of pattern p: its fixed weight once per address classified to it
TotalOf(p, classes) ==
    PATTERN_PRIORITY(p) * Cardinality({ i \in 1..Len(classes) : classes[i] = p })

\* The position of the first address classified to p
FirstSeen(p, classes) ==
    CHOOSE i \in 1..Len(classes) :
        classes[i] = p /\ \A j \in 1..(i - 1) : classes[j] # p

\* r is what the claim says selectPattern returns on addresses of these classes
SelectedAsClaimed(r, classes) ==
    /\ r = NULL <=> PresentIn(classes) = {}
    /\ r # NULL =>
          /\ r \in PresentIn(classes)
          /\ \A q \in PresentIn(classes) :
                /\ TotalOf(q, classes) <= TotalOf(r, classes)
                /\ TotalOf(q, classes) = TotalOf(r, classes) =>
                      FirstSeen(r, classes) <= FirstSeen(q, classes)

\* The addresses of the state's domain on the page the loop fetched last
PageEmails == businessEmails(html, domain)

\* C11: selectPattern returns a pattern whose total score (its weight once
\* per address classified to it) is the maximum over the patterns present,
\* among several of maximal total the one met first in the address list, and
\* no pattern exactly when no address is classifiable; the pattern the
\* handler keeps from a page is that return value.
C11_SelectPatternMaxTotalFirstMet ==
    html # NULL =>
        /\ SelectedAsClaimed(selectPattern(PageEmails), ClassOf(PageEmails))
        /\ pc = "contacts" =>
              SelectedAsClaimed(patternDiscovery.pattern, ClassOf(PageEmails))
        /\ (pc = "fetch" /\ PageEmails # <<>>) =>
              SelectedAsClaimed(NULL, ClassOf(PageEmails))

\* Two patterns present share the maximal total
TiedAtMax(classes) ==
    \E p, q \in PresentIn(classes) :
        /\ p # q
        /\ TotalOf(p, classes) = TotalOf(q, classes)
        /\ \A o \in PresentIn(classes) : TotalOf(o, classes) <= TotalOf(p, classes)

\* C11 witness: a page whose addresses give two patterns the same maximal
\* total has been fetched and the handler kept the pattern met first, which
\* is not the pattern of the greater weight
C11_Witness ==
    /\ pc = "contacts"
    /\ html # NULL
    /\ TiedAtMax(ClassOf(PageEmails))
    /\ patternDiscovery.pattern = "first"
    /\ patternDiscovery.pattern = ClassOf(PageEmails)[1]

\* The request has no array of entries to process, or an empty one
NothingSupplied == request = "value" /\ (~isArray \/ Len(entries) = 0)

\* Processing the request fails: the body is not JSON or is null, or an entry
\* of the batch carries a company or website that trim cannot be called on
ProcessingFails ==
    \/ request # "value"
    \/ \E e \in 1..Len(entries) :
          entries[e].company = NOT_A_STRING \/ entries[e].website = NOT_A_STRING

\* A response that carries a message
HasMessage(r) == r.error # NULL /\ r.error # ""

\* C12: a request whose entries are not an array or are an empty array gets
\* status 400 with an empty result list and a message, and no domain is
\* resolved and no page fetched for it; a failure during processing (a body
\* that is not JSON, or a failure after entries already produced results)
\* gets status 500 with a message and no results, never a partial result
\* list.
C12_ClientAndServerErrors ==
    /\ pc = "done" <=> response # NoResponse
    /\ (pc = "done" /\ NothingSupplied) =>
          /\ response.status = 400
          /\ response.results = <<>>
          /\ HasMessage(response)
    /\ NothingSupplied =>
          /\ domain = NULL
          /\ fetched = <<>>
          /\ discovered = <<>>
          /\ attempts = <<>>
    /\ (pc = "done" /\ ProcessingFails) =>
          /\ response.status = 500
          /\ response.results = <<>>
          /\ HasMessage(response)
    /\ (pc = "done" /\ ~NothingSupplied /\ ~ProcessingFails) =>
          /\ response.status = 200
          /\ idx > Len(entries)

\* C12 witness: the second entry of a batch fails after the first entry
\* produced result rows, and the response is the server error without them
C12_Witness ==
    /\ pc = "done"
    /\ idx = 2
    /\ Len(results) >= 1
    /\ response.status = 500
    /\ response.results = <<>>

\* The patterns inferPattern classifies a local part to
InferablePatterns == {"first.last", "firstlast", "first"}

\* A local part of the shape initial.last or first.initial
HasInitialShape(local) == ReInitialDotLast(local) \/ ReFirstDotInitial(local)

\* C13: inferPattern never returns firstinitial.last or first.lastinitial,
\* every local part of either shape being classified first.last; so a
\* pattern discovered from a fetched page (tier high) is one of first.last,
\* firstlast and first, and firstinitial.last reaches a result only through
\* the domain-keyword heuristic.
C13_InitialPatternsOnlyFromHeuristic ==
    /\ html # NULL =>
          \A i \in 1..Len(PageEmails) :
              /\ inferPattern(localOf(PageEmails[i]))
                     \in InferablePatterns \cup {NULL}
              /\ HasInitialShape(localOf(PageEmails[i])) =>
                    inferPattern(localOf(PageEmails[i])) = "first.last"
    /\ \A i \in 1..Len(discovered) :
          discovered[i].result.confidence = "high" =>
              discovered[i].result.pattern \in InferablePatterns
    /\ \A k \in 1..Len(attempts) :
          attempts[k].emailPattern = "firstinitial.last" =>
              /\ attempts[k].discovery.confidence = "medium"
              /\ attempts[k].discovery.pattern =
                     guessPatternFromDomain(attempts[k].domain)

\* C13 witness: a page whose addresses of the domain are an initial.last and
\* a first.initial address gave first.last with tier high, after an earlier
\* entry got a firstinitial.last address through its domain keyword
C13_Witness ==
    /\ pc = "contacts"
    /\ html # NULL
    /\ \E i \in 1..Len(PageEmails) : ReInitialDotLast(localOf(PageEmails[i]))
    /\ \E i \in 1..Len(PageEmails) : ReFirstDotInitial(localOf(PageEmails[i]))
    /\ \A i \in 1..Len(PageEmails) : HasInitialShape(localOf(PageEmails[i]))
    /\ patternDiscovery.pattern = "first.last"
    /\ patternDiscovery.confidence = "high"
    /\ \E k \in 1..Len(attempts) :
          /\ attempts[k].emailPattern = "firstinitial.last"
          /\ attempts[k].row # 0

====
